---- MODULE Spec2Model ----
(***************************************************************************)
(* Model of the deet debugger: the Debugger session (src/src/debugger.rs)   *)
(* driving one traced child through Inferior (src/src/inferior.rs).         *)
(* Every command of Debugger::run is one action; the tracee's behaviour     *)
(* between two stops is a nondeterministic choice of the next wait status.  *)
(***************************************************************************)
EXTENDS Integers, Sequences, FiniteSets, TLC

VARIABLES
    break_points,   \* Debugger.break_points : Vec<usize>
    inferior,       \* Debugger.inferior : Option<Inferior> (pid, breakpoint_map)
    procs,          \* the operating system's view of every child spawned
    session,        \* "prompt" | "exited" (run returned) | "panicked"
    out,            \* lines printed by the last command
    ops,            \* OS / ptrace requests issued by the last command, in order
    last            \* what the last command was and what its calls returned

vars == <<break_points, inferior, procs, session, out, ops, last>>

----------------------------------------------------------------------------
(* Bounds of the model *)

MaxBreaks == 2      \* longest breakpoint list explored
MaxPid == 2         \* number of children the session may spawn

(* Program constants *)

W == 8              \* size_of::<usize>() on x86-64
TRAP == 204         \* 0xcc, the INT3 opcode
BYTE_MASK == 255    \* 0xff

Pids == 1..MaxPid

----------------------------------------------------------------------------
(* 64-bit words as W bytes, least significant first; the bit operations    *)
(* write_byte uses, computed bit by bit.                                    *)

RECURSIVE BitAnd(_, _)
BitAnd(a, b) ==
    IF a = 0 \/ b = 0 THEN 0
    ELSE IF a = BYTE_MASK THEN b
    ELSE IF b = BYTE_MASK THEN a
    ELSE (a % 2) * (b % 2) + 2 * BitAnd(a \div 2, b \div 2)

RECURSIVE BitOr(_, _)
BitOr(a, b) ==
    IF a = 0 THEN b
    ELSE IF b = 0 THEN a
    ELSE (IF a % 2 = 1 \/ b % 2 = 1 THEN 1 ELSE 0) + 2 * BitOr(a \div 2, b \div 2)

WordOf(b) == [i \in 0..(W - 1) |-> IF i = 0 THEN b ELSE 0]
WordShr(w, k) == [i \in 0..(W - 1) |-> IF i + k < W THEN w[i + k] ELSE 0]
WordShl(w, k) == [i \in 0..(W - 1) |-> IF i >= k THEN w[i - k] ELSE 0]
WordAnd(w, v) == [i \in 0..(W - 1) |-> BitAnd(w[i], v[i])]
WordOr(w, v) == [i \in 0..(W - 1) |-> BitOr(w[i], v[i])]
WordNot(w) == [i \in 0..(W - 1) |-> BYTE_MASK - w[i]]
LowByte(w) == w[0]

\* addr & (-(size_of::<usize>() as isize) as usize): clears the low bits
align_addr_to_word(addr) == addr - (addr % W)

----------------------------------------------------------------------------
(* The target program's image and the tracee's address space                *)

TextWords == {8, 16}
StackWords == {96, 104, 112}

\* instruction bytes of the target as loaded, before any patch
ProgramImage(a) == 16 + a

\* the stack while the program is in foo, called from main: the saved frame
\* pointer at 96, the return address (inside main) at 104
StackImage ==
    [a \in StackWords |->
        IF a = 96 THEN WordOf(112) ELSE IF a = 104 THEN WordOf(20) ELSE WordOf(0)]

\* the text of a fresh child; mem holds the words a patch can change
InitialMem == [a \in TextWords |-> [i \in 0..(W - 1) |-> ProgramImage(a + i)]]

ByteAt(mem, a) == mem[align_addr_to_word(a)][a - align_addr_to_word(a)]

\* a child that was never spawned, and one that was reaped (its pid is free)
NoProc == [state |-> "unborn", mem |-> <<>>, rip |-> 0, rbp |-> 0, hit |-> FALSE]
GoneProc == [state |-> "gone", mem |-> <<>>, rip |-> 0, rbp |-> 0, hit |-> FALSE]

Op(name, pid, arg) == <<name, pid, arg>>

----------------------------------------------------------------------------
(* enum Status, with the registers the tracee has at a stop (rbp, and hit:  *)
(* the stop is the trap raised by executing the 0xCC at rip - 1)            *)

Stopped(sig, rip, rbp, hit) ==
    [kind |-> "Stopped", sig |-> sig, code |-> 0, rip |-> rip, rbp |-> rbp, hit |-> hit]
Exited(code) ==
    [kind |-> "Exited", sig |-> "none", code |-> code, rip |-> 0, rbp |-> 0, hit |-> FALSE]
Signaled(sig) ==
    [kind |-> "Signaled", sig |-> sig, code |-> 0, rip |-> 0, rbp |-> 0, hit |-> FALSE]
NoStatus ==
    [kind |-> "None", sig |-> "none", code |-> 0, rip |-> 0, rbp |-> 0, hit |-> FALSE]

Ok(st) == [ok |-> TRUE, status |-> st]
Err == [ok |-> FALSE, status |-> NoStatus]
\* no call was made
NotCalled == [ok |-> FALSE, status |-> [NoStatus EXCEPT !.kind = "NotCalled"]]

ExitCodes == {0, 3}
StopSignals == {"SIGSEGV"}
KillSignals == {"SIGKILL"}
\* where exec leaves the program counter at the entry trap
EntryRips == {10}
\* addresses at which the program may execute an instruction
CodeAddrs == {9, 17}
\* where a stop that is no breakpoint hit may leave the program counter
OtherRips == {10, 12, 20}
\* the frame pointer the program has at each place: foo's frame at 10, main's
\* at 18 and 20, and at 12 a value that is no frame (an unmapped address)
FramePointerAt(rip) == IF rip = 10 THEN 96 ELSE IF rip = 12 THEN 200 ELSE 112

\* the tracee after waitpid reported st
Apply(p, st) ==
    IF st.kind = "Stopped"
    THEN [p EXCEPT !.state = "stopped", !.rip = st.rip, !.rbp = st.rbp, !.hit = st.hit]
    ELSE GoneProc

----------------------------------------------------------------------------
(* Inferior: ptrace requests on a child.  A request on a child that is not  *)
(* stopped (it was reaped) fails with ESRCH; a read or write of an          *)
(* unmapped word fails with EIO.                                            *)

Traceable(p) == p.state = "stopped"
Mapped(p, a) == Traceable(p) /\ a \in DOMAIN p.mem \cup StackWords
\* the words a break target can name are text words or unmapped
Patchable(p, a) == Traceable(p) /\ a \in DOMAIN p.mem
\* ptrace::read of a mapped word
Peek(p, a) == IF a \in DOMAIN p.mem THEN p.mem[a] ELSE StackImage[a]

\* write_byte whose mask 0xff is not shifted to the byte's position
write_byte_mask_unshifted(p, pid, addr, val) ==
    LET aligned_addr == align_addr_to_word(addr)
        byte_offset == addr - aligned_addr
    IN  IF ~Patchable(p, aligned_addr)
        THEN [ok |-> FALSE, byte |-> 0, p |-> p,
              ops |-> <<Op("peek", pid, aligned_addr)>>]
        ELSE LET word == p.mem[aligned_addr]
                 orig_byte == LowByte(WordAnd(WordShr(word, byte_offset), WordOf(BYTE_MASK)))
                 masked_word == WordAnd(word, WordNot(WordOf(BYTE_MASK)))
                 updated_word == WordOr(masked_word, WordShl(WordOf(val), byte_offset))
             IN  [ok |-> TRUE, byte |-> orig_byte,
                  p |-> [p EXCEPT !.mem[aligned_addr] = updated_word],
                  ops |-> <<Op("peek", pid, aligned_addr), Op("poke", pid, aligned_addr)>>]

write_byte(p, pid, addr, val) ==
    LET aligned_addr == align_addr_to_word(addr)
        byte_offset == addr - aligned_addr
    IN  IF ~Patchable(p, aligned_addr)
        THEN [ok |-> FALSE, byte |-> 0, p |-> p,
              ops |-> <<Op("peek", pid, aligned_addr)>>]
        ELSE LET word == p.mem[aligned_addr]
                 orig_byte == LowByte(WordAnd(WordShr(word, byte_offset), WordOf(BYTE_MASK)))
                 masked_word == WordAnd(word, WordNot(WordShl(WordOf(BYTE_MASK), byte_offset)))
                 updated_word == WordOr(masked_word, WordShl(WordOf(val), byte_offset))
             IN  [ok |-> TRUE, byte |-> orig_byte,
                  p |-> [p EXCEPT !.mem[aligned_addr] = updated_word],
                  ops |-> <<Op("peek", pid, aligned_addr), Op("poke", pid, aligned_addr)>>]

EmptyMap == [a \in {} |-> 0]

\* Option<Inferior>: None, and Some(Inferior { child, breakpoint_map })
NoInferior == [some |-> FALSE, pid |-> 0, breakpoint_map |-> EmptyMap]
SomeInferior(pid, map) == [some |-> TRUE, pid |-> pid, breakpoint_map |-> map]

\* breakpoints.iter().for_each(|&x| map.insert(x, write_byte(pid, x, 0xcc).ok().unwrap()))
\* from index i on; ok = FALSE is the panic of unwrap() on a failed patch
RECURSIVE PatchFrom(_, _, _, _, _)
PatchFrom(p, pid, map, breakpoints, i) ==
    IF i > Len(breakpoints)
    THEN [ok |-> TRUE, p |-> p, map |-> map, ops |-> <<>>]
    ELSE LET x == breakpoints[i]
             r == write_byte(p, pid, x, TRAP)
         IN  IF ~r.ok
             THEN [ok |-> FALSE, p |-> r.p, map |-> map, ops |-> r.ops]
             ELSE LET inserted == [a \in DOMAIN map \cup {x} |->
                                      IF a = x THEN r.byte ELSE map[a]]
                      rest == PatchFrom(r.p, pid, inserted, breakpoints, i + 1)
                  IN  [rest EXCEPT !.ops = r.ops \o rest.ops]


\* install_breakpoints that patches nothing
install_breakpoints_none(inf, p, breakpoints) ==
    [ok |-> TRUE, p |-> p, inf |-> inf, ops |-> <<>>]

install_breakpoints(inf, p, breakpoints) ==
    LET r == PatchFrom(p, inf.pid, inf.breakpoint_map, breakpoints, 1)
    IN  [ok |-> r.ok, p |-> r.p, inf |-> [inf EXCEPT !.breakpoint_map = r.map],
         ops |-> r.ops]

\* what the first wait on a freshly spawned child may report
SpawnOutcomes ==
    {"spawn_err"} \cup {"entry_trap"} \cup {"other_stop"}

\* Inferior::new; pid is the process id the OS gives the child.
\* some: Some(inferior) was returned; panic: unwrap() panicked while patching
Inferior_new(pid, breakpoints, outcome, entry) ==
    IF outcome = "spawn_err"
    THEN [some |-> FALSE, panic |-> FALSE, inf |-> NoInferior, p |-> NoProc,
          ops |-> <<Op("spawn_failed", pid, 0)>>]
    ELSE
    LET child == [state |-> "stopped", mem |-> InitialMem, rip |-> entry,
                  rbp |-> FramePointerAt(entry),
                  hit |-> FALSE]
        head == <<Op("spawn", pid, 0), Op("waitpid", pid, 0), Op("getregs", pid, 0)>>
    IN  IF outcome = "entry_trap"
        THEN LET r == PatchFrom(child, pid, EmptyMap, breakpoints, 1)
             IN  [some |-> r.ok, panic |-> ~r.ok,
                  inf |-> SomeInferior(pid, r.map),
                  p |-> r.p, ops |-> head \o r.ops]
        ELSE [some |-> FALSE, panic |-> FALSE, inf |-> NoInferior, p |-> child,
              ops |-> head]

----------------------------------------------------------------------------
(* What the tracee may do when it is resumed                                *)

\* one instruction executed at a: the 0xCC traps; any other instruction
\* completes (SIGTRAP of the single-step), faults, or ends the process
StepOutcomes(p, a) ==
    IF ByteAt(p.mem, a) = TRAP
    THEN {Stopped("SIGTRAP", a + 1, p.rbp, TRUE)}
    ELSE {Stopped("SIGTRAP", a + 1, p.rbp, FALSE)}
         \cup {Stopped(sig, a, p.rbp, FALSE) : sig \in StopSignals}
         \cup {Exited(c) : c \in ExitCodes}
         \cup {Signaled(sig) : sig \in KillSignals}

\* the tracee runs until its next event: it executes a 0xCC that is in its
\* memory, is stopped by another signal, exits, or is killed
ContOutcomes(p) ==
    {Stopped("SIGTRAP", a + 1, FramePointerAt(a + 1), TRUE) :
        a \in {c \in CodeAddrs : ByteAt(p.mem, c) = TRAP}}
    \cup {Stopped(sig, r, FramePointerAt(r), FALSE) : sig \in StopSignals, r \in OtherRips}
    \cup {Exited(c) : c \in ExitCodes}
    \cup {Signaled(sig) : sig \in KillSignals}

\* Inferior::wait reads the registers when the child stopped
WaitOps(pid, st) ==
    IF st.kind = "Stopped"
    THEN <<Op("waitpid", pid, 0), Op("getregs", pid, 0)>>
    ELSE <<Op("waitpid", pid, 0)>>

\* ptrace::cont(pid)? returning the tracee's next status without self.wait
ContAndWait_no_wait(p, pid, opsSoFar, step) ==
    IF ~Traceable(p)
    THEN {[res |-> Err, step |-> step, p |-> p,
           ops |-> opsSoFar \o <<Op("cont", pid, 0)>>]}
    ELSE {[res |-> Ok(c), step |-> step, p |-> Apply(p, c),
           ops |-> opsSoFar \o <<Op("cont", pid, 0)>>] :
            c \in ContOutcomes(p)}

\* ptrace::cont(pid)?; self.wait(None)
ContAndWait(p, pid, opsSoFar, step) ==
    IF ~Traceable(p)
    THEN {[res |-> Err, step |-> step, p |-> p,
           ops |-> opsSoFar \o <<Op("cont", pid, 0)>>]}
    ELSE {[res |-> Ok(c), step |-> step, p |-> Apply(p, c),
           ops |-> opsSoFar \o <<Op("cont", pid, 0)>> \o WaitOps(pid, c)] :
            c \in ContOutcomes(p)}

\* the match on the single-step's wait with an empty SIGTRAP arm
ReArm_never(p, pid, addr, s) ==
    [ok |-> TRUE, byte |-> 0, p |-> p, ops |-> <<>>]

\* the match on the single-step's wait: re-arm on Stopped(SIGTRAP, _) only
ReArm(p, pid, addr, s) ==
    IF s.kind = "Stopped" /\ s.sig = "SIGTRAP"
    THEN write_byte(p, pid, addr, TRAP)
    ELSE [ok |-> TRUE, byte |-> 0, p |-> p, ops |-> <<>>]

\* Inferior::go: the set of results the tracee's behaviour allows.
\* res: the Result returned; step: the status of the single-step's wait
go(inf, p) ==
    LET pid == inf.pid
        regs == <<Op("getregs", pid, 0)>>
    IN  IF ~Traceable(p)
        THEN {[res |-> Err, step |-> NoStatus, p |-> p, ops |-> regs]}
        ELSE IF (p.rip - 1) \in DOMAIN inf.breakpoint_map
        THEN LET addr == p.rip - 1
                 byte == inf.breakpoint_map[addr]
                 r1 == write_byte(p, pid, addr, byte)
                 p1 == [r1.p EXCEPT !.rip = addr]
                 ops1 == regs \o r1.ops \o <<Op("setregs", pid, addr), Op("step", pid, 0)>>
             IN  IF ~r1.ok
                 THEN {[res |-> Err, step |-> NoStatus, p |-> r1.p, ops |-> regs \o r1.ops]}
                 ELSE UNION {
                        LET p2 == Apply(p1, s)
                            r3 == ReArm(p2, pid, addr, s)
                            ops3 == ops1 \o WaitOps(pid, s) \o r3.ops
                        IN  IF ~r3.ok
                            THEN {[res |-> Err, step |-> s, p |-> r3.p, ops |-> ops3]}
                            ELSE ContAndWait(r3.p, pid, ops3, s)
                        : s \in StepOutcomes(p1, addr)}
        ELSE ContAndWait(p, pid, regs, NoStatus)

\* kill that sends SIGKILL and returns without waiting: the child is left
\* a zombie
kill_without_wait(inf, p) ==
    IF ~Traceable(p)
    THEN [res |-> Err, p |-> p, out |-> <<"command cannot be killed.">>,
          ops |-> <<Op("kill", inf.pid, 0)>>]
    ELSE [res |-> Ok(Signaled("SIGKILL")), p |-> [GoneProc EXCEPT !.state = "zombie"],
          out |-> <<>>, ops |-> <<Op("kill", inf.pid, 0)>>]

\* Inferior::kill: SIGKILL through the Child handle, then wait
kill(inf, p) ==
    IF ~Traceable(p)
    THEN [res |-> Err, p |-> p, out |-> <<"command cannot be killed.">>,
          ops |-> <<Op("kill", inf.pid, 0)>>]
    ELSE [res |-> Ok(Signaled("SIGKILL")), p |-> GoneProc, out |-> <<>>,
          ops |-> <<Op("kill", inf.pid, 0), Op("waitpid", inf.pid, 0)>>]

----------------------------------------------------------------------------
(* The debug-information oracle (DwarfData), as section 6 describes it      *)

NoAddr == [some |-> FALSE, val |-> 0]
SomeAddr(a) == [some |-> TRUE, val |-> a]

get_function_from_addr(rip) ==
    IF rip \in 16..23 THEN "main"
    ELSE IF rip \in 8..15 THEN "foo"
    ELSE "Unrecognized function"

get_line_from_addr(rip) ==
    IF rip \in 8..23 THEN [some |-> TRUE, line |-> <<"t.c", rip>>]
    ELSE [some |-> FALSE, line |-> <<"Unrecognized file", 0>>]

get_addr_for_line(line_no) == IF line_no = 42 THEN SomeAddr(17) ELSE NoAddr

find_function(name) == name \in {<<"m", "a", "i", "n">>, <<"f", "n">>}

get_addr_for_function(name) ==
    IF name = <<"m", "a", "i", "n">> THEN SomeAddr(17) ELSE NoAddr

----------------------------------------------------------------------------
(* Inferior::print_backtrace                                                *)

\* a word read by ptrace::read, as usize
RECURSIVE WordValFrom(_, _)
WordValFrom(w, i) ==
    IF i >= W THEN 0
    ELSE IF \A j \in i..(W - 1) : w[j] = 0 THEN 0
    ELSE w[i] + 256 * WordValFrom(w, i + 1)

RECURSIVE Frames(_, _, _, _)
Frames(p, pid, rip, rbp) ==
    LET func == get_function_from_addr(rip)
        line == get_line_from_addr(rip).line
        printed == <<<<"{} ({})", func, line>>>>
    IN  IF func = "main"
        THEN [ok |-> TRUE, out |-> printed, ops |-> <<>>]
        ELSE IF ~Mapped(p, rbp + W)
        THEN [ok |-> FALSE, out |-> printed, ops |-> <<Op("peek", pid, rbp + W)>>]
        ELSE IF ~Mapped(p, rbp)
        THEN [ok |-> FALSE, out |-> printed,
              ops |-> <<Op("peek", pid, rbp + W), Op("peek", pid, rbp)>>]
        ELSE LET rest == Frames(p, pid, WordValFrom(Peek(p, rbp + W), 0),
                                WordValFrom(Peek(p, rbp), 0))
             IN  [ok |-> rest.ok, out |-> printed \o rest.out,
                  ops |-> <<Op("peek", pid, rbp + W), Op("peek", pid, rbp)>> \o rest.ops]

print_backtrace(inf, p) ==
    IF ~Traceable(p)
    THEN [ok |-> FALSE, out |-> <<>>, ops |-> <<Op("getregs", inf.pid, 0)>>]
    ELSE LET r == Frames(p, inf.pid, p.rip, p.rbp)
         IN  [r EXCEPT !.ops = <<Op("getregs", inf.pid, 0)>> \o r.ops]

----------------------------------------------------------------------------
(* Debugger: parsing of a break target (a string, as its characters)        *)

DigitVal(c) ==
    CASE c = "0" -> 0 [] c = "1" -> 1 [] c = "2" -> 2 [] c = "3" -> 3
      [] c = "4" -> 4 [] c = "5" -> 5 [] c = "6" -> 6 [] c = "7" -> 7
      [] c = "8" -> 8 [] c = "9" -> 9
      [] c \in {"a", "A"} -> 10 [] c \in {"b", "B"} -> 11 [] c \in {"c", "C"} -> 12
      [] c \in {"d", "D"} -> 13 [] c \in {"e", "E"} -> 14 [] c \in {"f", "F"} -> 15
      [] OTHER -> 36

to_lowercase(c) == IF c = "X" THEN "x" ELSE c

\* digits of str in the radix, most significant first; acc is the value so far
RECURSIVE DigitsFrom(_, _, _, _)
DigitsFrom(str, i, radix, acc) ==
    IF i > Len(str) THEN SomeAddr(acc)
    ELSE IF DigitVal(str[i]) >= radix THEN NoAddr
    ELSE DigitsFrom(str, i + 1, radix, acc * radix + DigitVal(str[i]))

\* usize::from_str_radix: an optional '+', then at least one digit
from_str_radix(str, radix) ==
    LET digits == IF Len(str) > 0 /\ str[1] = "+" THEN Tail(str) ELSE str
    IN  IF Len(digits) = 0 THEN NoAddr ELSE DigitsFrom(digits, 1, radix, 0)

parse_address(addr) ==
    LET addr_without_0x ==
            IF Len(addr) >= 2 /\ to_lowercase(addr[1]) = "0" /\ to_lowercase(addr[2]) = "x"
            THEN SubSeq(addr, 3, Len(addr))
            ELSE addr
    IN  from_str_radix(addr_without_0x, 16)

\* the targets the user types after `break`
Targets ==
    { <<"*", "9">>, <<"*", "0", "x", "1", "1">>, <<"*", "0", "X", "2", "8">>,
      <<"*", "z", "z">>, <<"4", "2">>, <<"4", "3">>,
      <<"m", "a", "i", "n">>, <<"f", "n">>, <<"n", "o">> }

----------------------------------------------------------------------------
(* Debugger::print_status *)

\* print_status with the None arm falling into the silent `_` arm
print_status_error_silent(status) ==
    IF ~status.ok
    THEN [out |-> <<>>, ret |-> NoStatus]
    ELSE LET st == status.status
         IN  CASE st.kind = "Exited" ->
                    [out |-> <<<<"Child exited (status {})", st.code>>>>, ret |-> st]
               [] st.kind = "Stopped" ->
                    [out |-> <<<<"Child stopped (signal {})", st.sig>>>>
                             \o (IF get_line_from_addr(st.rip).some
                                 THEN <<<<"Stopped at {}", get_line_from_addr(st.rip).line>>>>
                                 ELSE <<>>),
                     ret |-> st]
               [] OTHER -> [out |-> <<>>, ret |-> NoStatus]

\* print_status with the Exited arm printing but returning None
print_status_exit_not_returned(status) ==
    IF ~status.ok
    THEN [out |-> <<<<"continue fails!">>>>, ret |-> NoStatus]
    ELSE LET st == status.status
         IN  CASE st.kind = "Exited" ->
                    [out |-> <<<<"Child exited (status {})", st.code>>>>, ret |-> NoStatus]
               [] st.kind = "Stopped" ->
                    [out |-> <<<<"Child stopped (signal {})", st.sig>>>>
                             \o (IF get_line_from_addr(st.rip).some
                                 THEN <<<<"Stopped at {}", get_line_from_addr(st.rip).line>>>>
                                 ELSE <<>>),
                     ret |-> st]
               [] OTHER -> [out |-> <<>>, ret |-> NoStatus]

print_status(status) ==
    IF ~status.ok
    THEN [out |-> <<<<"continue fails!">>>>, ret |-> NoStatus]
    ELSE LET st == status.status
         IN  CASE st.kind = "Exited" ->
                    [out |-> <<<<"Child exited (status {})", st.code>>>>, ret |-> st]
               [] st.kind = "Stopped" ->
                    [out |-> <<<<"Child stopped (signal {})", st.sig>>>>
                             \o (IF get_line_from_addr(st.rip).some
                                 THEN <<<<"Stopped at {}", get_line_from_addr(st.rip).line>>>>
                                 ELSE <<>>),
                     ret |-> st]
               [] OTHER -> [out |-> <<>>, ret |-> NoStatus]

----------------------------------------------------------------------------
(* Debugger::run, one action per command                                    *)

\* the record of a command: what it called and what that returned
Event(cmd, target, spawn, goRes, step, killRes, bt) ==
    [cmd |-> cmd, target |-> target, spawn |-> spawn, go |-> goRes, step |-> step,
     kill |-> killRes, bt |-> bt]

NoKill == [res |-> NotCalled, p |-> NoProc, out |-> <<>>, ops |-> <<>>]

Unborn == {q \in Pids : procs[q].state = "unborn"}
\* the process id the next spawn gets
NextPid == IF Unborn = {} THEN 0 ELSE CHOOSE q \in Unborn : \A r \in Unborn : q <= r

Init ==
    /\ break_points = <<>>
    /\ inferior = NoInferior
    /\ procs = [q \in Pids |-> NoProc]
    /\ session = "prompt"
    /\ out = <<>>
    /\ ops = <<>>
    /\ last = Event("none", <<>>, "none", NotCalled, NoStatus, NotCalled, "none")

\* DebuggerCommand::Run(args)
CmdRun ==
    /\ session = "prompt"
    /\ \E outcome \in SpawnOutcomes, entry \in EntryRips :
        /\ outcome # "spawn_err" => Unborn # {}
        /\ LET pid == NextPid
               n == Inferior_new(pid, break_points, outcome, entry)
               spawned == [procs EXCEPT ![pid] = n.p]
           IN  IF n.panic
               THEN /\ session' = "panicked"
                    /\ procs' = spawned
                    /\ out' = <<>>
                    /\ ops' = n.ops
                    /\ last' = Event("Run", <<>>, outcome, NotCalled, NoStatus,
                                     NotCalled, "none")
                    /\ UNCHANGED <<break_points, inferior>>
               ELSE IF ~n.some
               THEN /\ out' = <<<<"Error starting subprocess">>>>
                    /\ procs' = IF outcome = "spawn_err" THEN procs ELSE spawned
                    /\ ops' = n.ops
                    /\ last' = Event("Run", <<>>, outcome, NotCalled, NoStatus,
                                     NotCalled, "none")
                    /\ UNCHANGED <<break_points, inferior, session>>
               ELSE LET k == IF inferior.some
                             THEN kill(inferior, procs[inferior.pid])
                             ELSE NoKill
                        killed == IF inferior.some
                                  THEN [spawned EXCEPT ![inferior.pid] = k.p]
                                  ELSE spawned
                    IN  \E g \in go(n.inf, n.p) :
                          LET ps == print_status(g.res)
                          IN  /\ inferior' = IF ps.ret.kind = "Exited"
                                             THEN NoInferior ELSE n.inf
                              /\ procs' = [killed EXCEPT ![pid] = g.p]
                              /\ out' = k.out \o ps.out
                              /\ ops' = n.ops \o k.ops \o g.ops
                              /\ last' = Event("Run", <<>>, outcome, g.res, g.step,
                                               k.res, "none")
                              /\ UNCHANGED <<break_points, session>>

\* the Continue arm without the `continue` after the refusal: it goes on to
\* self.inferior.as_mut().unwrap(), which panics on None
CmdContinue_refusal_falls_through ==
    /\ session = "prompt"
    /\ IF ~inferior.some
       THEN /\ out' = <<<<"The program is not being run.">>>>
            /\ ops' = <<>>
            /\ session' = "panicked"
            /\ last' = Event("Continue", <<>>, "none", NotCalled, NoStatus,
                             NotCalled, "none")
            /\ UNCHANGED <<break_points, inferior, procs>>
       ELSE \E g \in go(inferior, procs[inferior.pid]) :
              LET ps == print_status(g.res)
              IN  /\ inferior' = IF ps.ret.kind = "Exited" THEN NoInferior ELSE inferior
                  /\ procs' = [procs EXCEPT ![inferior.pid] = g.p]
                  /\ out' = ps.out
                  /\ ops' = g.ops
                  /\ last' = Event("Continue", <<>>, "none", g.res, g.step,
                                   NotCalled, "none")
                  /\ UNCHANGED <<break_points, session>>

\* DebuggerCommand::Continue
CmdContinue ==
    /\ session = "prompt"
    /\ IF ~inferior.some
       THEN /\ out' = <<<<"The program is not being run.">>>>
            /\ ops' = <<>>
            /\ last' = Event("Continue", <<>>, "none", NotCalled, NoStatus,
                             NotCalled, "none")
            /\ UNCHANGED <<break_points, inferior, procs, session>>
       ELSE \E g \in go(inferior, procs[inferior.pid]) :
              LET ps == print_status(g.res)
              IN  /\ inferior' = IF ps.ret.kind = "Exited" THEN NoInferior ELSE inferior
                  /\ procs' = [procs EXCEPT ![inferior.pid] = g.p]
                  /\ out' = ps.out
                  /\ ops' = g.ops
                  /\ last' = Event("Continue", <<>>, "none", g.res, g.step,
                                   NotCalled, "none")
                  /\ UNCHANGED <<break_points, session>>

\* DebuggerCommand::Backtrace
CmdBacktrace ==
    /\ session = "prompt"
    /\ IF ~inferior.some
       THEN /\ out' = <<<<"The program is not being run.">>>>
            /\ ops' = <<>>
            /\ last' = Event("Backtrace", <<>>, "none", NotCalled, NoStatus,
                             NotCalled, "none")
            /\ UNCHANGED <<break_points, inferior, procs, session>>
       ELSE LET r == print_backtrace(inferior, procs[inferior.pid])
            IN  /\ out' = r.out
                /\ ops' = r.ops
                \* .expect("") panics on Err
                /\ session' = IF r.ok THEN "prompt" ELSE "panicked"
                /\ last' = Event("Backtrace", <<>>, "none", NotCalled, NoStatus,
                                 NotCalled, IF r.ok THEN "ok" ELSE "err")
                /\ UNCHANGED <<break_points, inferior, procs>>

\* Recorded with the index printed as len() instead of len() - 1
Recorded_index_one_based(bps, addr) ==
    [bps |-> Append(bps, addr),
     out |-> <<<<"Set breakpoint {} at {:#x}", Len(Append(bps, addr)), addr>>>>]

\* the first part of the Breakpoint arm: resolve the target, record, print
Recorded(bps, addr) ==
    [bps |-> Append(bps, addr),
     out |-> <<<<"Set breakpoint {} at {:#x}", Len(Append(bps, addr)) - 1, addr>>>>]

record_breakpoint(bps, target) ==
    IF target[1] = "*"
    THEN LET a == parse_address(Tail(target))
         IN  IF a.some THEN Recorded(bps, a.val)
             ELSE [bps |-> bps, out |-> <<<<"Invalid address.">>>>]
    ELSE IF from_str_radix(target, 10).some
    THEN LET a == get_addr_for_line(from_str_radix(target, 10).val)
         IN  IF a.some THEN Recorded(bps, a.val) ELSE [bps |-> bps, out |-> <<>>]
    ELSE IF find_function(target)
    THEN LET a == get_addr_for_function(target)
         IN  IF a.some THEN Recorded(bps, a.val) ELSE [bps |-> bps, out |-> <<>>]
    ELSE [bps |-> bps, out |-> <<<<"Invalid breakpoint target.">>>>]

\* DebuggerCommand::Breakpoint(target)
CmdBreakpoint ==
    /\ session = "prompt"
    /\ \E target \in Targets :
        LET r == record_breakpoint(break_points, target)
        IN  /\ Len(r.bps) <= MaxBreaks
            /\ break_points' = r.bps
            /\ out' = r.out
            /\ last' = Event("Breakpoint", target, "none", NotCalled, NoStatus,
                             NotCalled, "none")
            /\ IF inferior.some
               THEN LET i == install_breakpoints(inferior, procs[inferior.pid], r.bps)
                    IN  /\ inferior' = i.inf
                        /\ procs' = [procs EXCEPT ![inferior.pid] = i.p]
                        /\ ops' = i.ops
                        \* unwrap() panics on a failed patch
                        /\ session' = IF i.ok THEN "prompt" ELSE "panicked"
               ELSE /\ ops' = <<>>
                    /\ UNCHANGED <<inferior, procs, session>>

\* DebuggerCommand::Quit
CmdQuit ==
    /\ session = "prompt"
    /\ LET k == IF inferior.some THEN kill(inferior, procs[inferior.pid]) ELSE NoKill
       IN  /\ procs' = IF inferior.some THEN [procs EXCEPT ![inferior.pid] = k.p]
                       ELSE procs
           /\ out' = k.out
           /\ ops' = k.ops
           /\ last' = Event("Quit", <<>>, "none", NotCalled, NoStatus, k.res, "none")
    /\ session' = "exited"
    /\ UNCHANGED <<break_points, inferior>>

Next ==
    \/ CmdRun
    \/ CmdContinue
    \/ CmdBacktrace
    \/ CmdBreakpoint
    \/ CmdQuit

Spec == Init /\ [][Next]_vars

----------------------------------------------------------------------------------------------------------------------------------------
(* Properties.  A step that changes the variables and leaves last.cmd = c  *)
(* is a step of the command c; its primed variables are the state at the   *)
(* next prompt.                                                             *)

AtPrompt == session = "prompt"
Tracee == procs[inferior.pid]
Live == inferior.some /\ Tracee.state = "stopped"
Resumed == last.cmd \in {"Run", "Continue"} /\ last.go # NotCalled
Returned(kind) == Resumed /\ last.go.ok /\ last.go.status.kind = kind
InvalidStar(t) == Len(t) > 0 /\ t[1] = "*" /\ ~parse_address(Tail(t)).some
\* the positions of ops at which a request named in names is made on pid
Positions(names, pid) == {i \in 1..Len(ops) : ops[i][1] \in names /\ ops[i][2] = pid}
Range(f) == {f[i] : i \in DOMAIN f}

\* C1: at the prompt with a stopped inferior, every address of its Byte
\* Table holds 0xCC in the tracee's memory.
C1_TrapAtEveryTableAddress ==
    (AtPrompt /\ Live) =>
        \A a \in DOMAIN inferior.breakpoint_map : ByteAt(Tracee.mem, a) = TRAP

\* C2: every entry A -> b of the Byte Table has b equal to the byte the
\* program had at A before any trap was patched there.
C2_SavedByteIsProgramByte ==
    inferior.some =>
        \A a \in DOMAIN inferior.breakpoint_map :
            inferior.breakpoint_map[a] = ProgramImage(a)

\* C3: a Run issued while an inferior is live kills and reaps the old tracee
\* before it spawns the new one.
C3_OldReapedBeforeSpawn ==
    [][(Live /\ last'.cmd = "Run") =>
        \A j \in 1..Len(ops') :
            ops'[j][1] = "spawn" =>
                \E i \in 1..(j - 1) : ops'[i] = Op("waitpid", inferior.pid, 0)]_vars

\* C4: when go() returns Signaled during Run or Continue the session holds
\* no inferior afterwards.
C4_SignaledDiscardsInferior ==
    Returned("Signaled") => ~inferior.some

\* C5: a Run whose spawn fails prints "Error starting subprocess" and leaves
\* the session without an inferior, also when one was live before.
C5_FailedSpawnLeavesNoInferior ==
    (last.cmd = "Run" /\ last.spawn \in {"spawn_err", "other_stop"}) =>
        /\ out = <<<<"Error starting subprocess">>>>
        /\ ~inferior.some

\* C6: when go() returns Exited(code) during Run or Continue the session
\* prints "Child exited (status code)", holds no inferior afterwards and has
\* the breakpoint list it had before; a Continue that follows prints
\* "The program is not being run."
C6_ExitedDiscardsInferior ==
    [][/\ Returned("Exited")' =>
            /\ Len(out') >= 1
            /\ out'[Len(out')] = <<"Child exited (status {})", last'.go.status.code>>
            /\ ~inferior'.some
            /\ break_points' = break_points
       /\ (Returned("Exited") /\ last'.cmd = "Continue") =>
            /\ out' = <<<<"The program is not being run.">>>>
            /\ ~inferior'.some]_vars

C6_Witness ==
    /\ last.cmd = "Continue"
    /\ Returned("Exited")
    /\ last.go.status.code = 3
    /\ last.step.kind = "Stopped"
    /\ Len(break_points) >= 1

\* C7: when the child exits or is killed during the single-step of a
\* resume-from-breakpoint, go() returns that terminal status.
C7_StepTerminalStatusReturned ==
    (Resumed /\ last.step.kind \in {"Exited", "Signaled"}) =>
        /\ last.go.ok
        /\ last.go.status = last.step

\* C8: at the prompt with an inferior, every address of the breakpoint list
\* is a key of the inferior's Byte Table; after a Run the table has exactly
\* the list's addresses, all patched before the child was first resumed.
C8_ListedAddressesInTable ==
    /\ (AtPrompt /\ inferior.some) =>
            Range(break_points) \subseteq DOMAIN inferior.breakpoint_map
    /\ (AtPrompt /\ last.cmd = "Run" /\ last.spawn = "entry_trap") =>
          \E pid \in Pids :
            /\ Positions({"spawn"}, pid) # {}
            /\ inferior.some => (inferior.pid = pid
                                 /\ DOMAIN inferior.breakpoint_map = Range(break_points))
            /\ \A r \in Positions({"step", "cont", "setregs"}, pid) :
                  Cardinality({i \in Positions({"poke"}, pid) : i < r})
                      >= Len(break_points)

C8_Witness ==
    /\ AtPrompt
    /\ Live
    /\ last.cmd = "Breakpoint"
    /\ Len(break_points) >= 2
    /\ ops # <<>>
    /\ out # <<>>
    /\ out[1][1] = "Set breakpoint {} at {:#x}"

\* C9: a Breakpoint command whose `*` target does not parse prints
\* "Invalid address." and changes nothing else, and issues no ptrace request.
C9_InvalidAddressChangesNothing ==
    [][(last'.cmd = "Breakpoint" /\ InvalidStar(last'.target)) =>
        /\ out' = <<<<"Invalid address.">>>>
        /\ break_points' = break_points
        /\ inferior' = inferior
        /\ procs' = procs
        /\ ops' = <<>>]_vars

\* C10: a failure of a register or memory read during Backtrace of a stopped
\* tracee is suppressed: the session is at the prompt again, with the same
\* inferior and breakpoint list.
C10_BacktraceErrorSuppressed ==
    [][(Live /\ last'.cmd = "Backtrace" /\ last'.bt = "err") =>
        /\ session' = "prompt"
        /\ inferior' = inferior
        /\ break_points' = break_points]_vars

\* C11: when go() fails during Run or Continue the session prints
\* "continue fails!", keeps its inferior (after Continue the one it had,
\* after Run the one just spawned) and its breakpoint list, and is at the
\* prompt again.
C11_GoErrorKeepsInferior ==
    [][(Resumed /\ ~last.go.ok)' =>
        /\ Len(out') >= 1
        /\ out'[Len(out')] = <<"continue fails!">>
        /\ inferior'.some
        /\ last'.cmd = "Continue" => inferior' = inferior
        /\ last'.cmd = "Run" => (Positions({"spawn"}, inferior.pid) # {})'
        /\ break_points' = break_points
        /\ session' = "prompt"]_vars

C11_Witness ==
    /\ last.cmd = "Continue"
    /\ Resumed
    /\ ~last.go.ok
    /\ last.step.kind = "Exited"
    /\ inferior.some
    /\ AtPrompt

\* C12: every Breakpoint command either appends exactly one address and
\* prints "Set breakpoint N at ADDR", or appends nothing and prints
\* "Invalid address." (a `*` target that does not parse) or "Invalid
\* breakpoint target." (every other case).
C12_BreakpointAlwaysAnswers ==
    [][last'.cmd = "Breakpoint" =>
        \/ /\ Len(break_points') = Len(break_points) + 1
           /\ SubSeq(break_points', 1, Len(break_points)) = break_points
           /\ Len(out') = 1
           /\ out'[1][1] = "Set breakpoint {} at {:#x}"
        \/ /\ break_points' = break_points
           /\ out' = IF InvalidStar(last'.target)
                     THEN <<<<"Invalid address.">>>>
                     ELSE <<<<"Invalid breakpoint target.">>>>]_vars

\* C13: Continue or Backtrace with no inferior prints "The program is not
\* being run.", issues no ptrace or wait request, changes neither the
\* breakpoint list nor the empty inferior slot nor any process, and the
\* session is at the prompt again.
C13_RefusalWithoutInferior ==
    [][(~inferior.some /\ last'.cmd \in {"Continue", "Backtrace"}) =>
        /\ out' = <<<<"The program is not being run.">>>>
        /\ ops' = <<>>
        /\ last'.go = NotCalled
        /\ break_points' = break_points
        /\ inferior' = inferior
        /\ procs' = procs
        /\ session' = "prompt"]_vars

\* a refusal after the inferior was discarded on exit
C13_Witness ==
    /\ last.cmd = "Continue"
    /\ last.go = NotCalled
    /\ ~inferior.some
    /\ \E q \in Pids : procs[q].state = "gone"
    /\ Len(break_points) >= 1
    /\ AtPrompt

\* C14: Quit with a live inferior sends it SIGKILL and then waits for it,
\* and nothing else; once the session has ended through Quit the tracee it
\* holds is reaped.
C14_QuitKillsAndReaps ==
    [][last'.cmd = "Quit" =>
        /\ session' = "exited"
        /\ Live =>
            /\ ops' = <<Op("kill", inferior.pid, 0), Op("waitpid", inferior.pid, 0)>>
            /\ last'.kill = Ok(Signaled("SIGKILL"))
        /\ inferior'.some => procs'[inferior'.pid].state = "gone"]_vars

C14_Witness ==
    /\ session = "exited"
    /\ last.cmd = "Quit"
    /\ last.kill.ok
    /\ inferior.some
    /\ Tracee.state = "gone"
    /\ Len(break_points) >= 1

\* C15: the breakpoint list only grows by appending (each state's list is a
\* prefix of the next state's, so of every later one), and a `break` that
\* records an address prints the 0-based position at which it was appended.
C15_ListAppendOnly ==
    [][/\ Len(break_points') >= Len(break_points)
       /\ SubSeq(break_points', 1, Len(break_points)) = break_points
       /\ break_points' # break_points =>
            /\ last'.cmd = "Breakpoint"
            /\ Len(break_points') = Len(break_points) + 1
            /\ out' = <<<<"Set breakpoint {} at {:#x}", Len(break_points),
                          break_points'[Len(break_points) + 1]>>>>
            /\ break_points'[out'[1][2] + 1] = out'[1][3]]_vars

C15_Witness ==
    /\ last.cmd = "Breakpoint"
    /\ Len(break_points) = 2
    /\ out = <<<<"Set breakpoint {} at {:#x}", 1, break_points[2]>>>>
    /\ inferior.some

\* the requests of a go() that stepped over the breakpoint at addr, whose
\* single-step's wait reported step and whose last wait reported final
StepOverRequests(pid, addr, step, final) ==
    LET word == W * (addr \div W)
        patch == <<Op("peek", pid, word), Op("poke", pid, word)>>
        waited(st) == <<Op("waitpid", pid, 0)>>
                      \o (IF st.kind = "Stopped" THEN <<Op("getregs", pid, 0)>> ELSE <<>>)
    IN  <<Op("getregs", pid, 0)>> \o patch
        \o <<Op("setregs", pid, addr), Op("step", pid, 0)>> \o waited(step)
        \o (IF step.sig = "SIGTRAP" THEN patch ELSE <<>>)
        \o <<Op("cont", pid, 0)>> \o waited(final)

\* C16: a go() called with rip - 1 in the Byte Table that meets no ptrace
\* error issues, in this order and nothing else: restore the byte at
\* rip - 1, set rip := rip - 1, single-step, wait, (after a SIGTRAP stop)
\* write 0xCC back, continue, wait.  The single-step runs on the table's
\* saved byte, and after a SIGTRAP single-step the tracee is continued with
\* 0xCC in place.
C16_StepOverOrder ==
    (Resumed /\ last.go.ok /\ last.step.kind = "Stopped") =>
        \E j \in 4..Len(ops) :
            /\ ops[j][1] = "setregs"
            /\ SubSeq(ops, j - 3, Len(ops))
                 = StepOverRequests(ops[j][2], ops[j][3], last.step, last.go.status)
            /\ last.step.rip = IF last.step.sig = "SIGTRAP" THEN ops[j][3] + 1
                               ELSE ops[j][3]
            /\ inferior.some =>
                 /\ inferior.pid = ops[j][2]
                 /\ ops[j][3] \in DOMAIN inferior.breakpoint_map
                 /\ last.step.hit = (inferior.breakpoint_map[ops[j][3]] = TRAP)
            /\ (Live /\ last.step.sig = "SIGTRAP") =>
                 ByteAt(Tracee.mem, ops[j][3]) = TRAP

\* a step-over from a breakpoint hit, re-armed, and stopped again
C16_Witness ==
    /\ last.cmd = "Continue"
    /\ Returned("Stopped")
    /\ last.step.kind = "Stopped"
    /\ last.step.sig = "SIGTRAP"
    /\ ~last.step.hit
    /\ Len(ops) = 12

\* C17: a go() issues at most one single-step and at most one continue;
\* a single-step is followed at once by one wait on the same child and no
\* second wait; a continue that succeeded is followed by exactly the one
\* wait whose status go() returns, and one that failed is go()'s last request.
C17_OneWaitPerResume ==
    Resumed =>
        \A pid \in Pids :
            /\ Cardinality(Positions({"step"}, pid)) <= 1
            /\ Cardinality(Positions({"cont"}, pid)) <= 1
            /\ \A i \in Positions({"step"}, pid) :
                 /\ i + 1 <= Len(ops)
                 /\ ops[i + 1] = Op("waitpid", pid, 0)
                 /\ i + 2 <= Len(ops) => ops[i + 2][1] # "waitpid"
                 /\ \A j \in Positions({"cont"}, pid) : j > i + 1
            /\ \A i \in Positions({"cont"}, pid) :
                 IF last.go.ok
                 THEN SubSeq(ops, i + 1, Len(ops)) = WaitOps(pid, last.go.status)
                 ELSE i = Len(ops)
            /\ last.cmd = "Continue" =>
                 Cardinality(Positions({"waitpid"}, pid))
                   = Cardinality(Positions({"step"}, pid))
                     + (IF last.go.ok THEN Cardinality(Positions({"cont"}, pid)) ELSE 0)

\* a go() that single-stepped, was stopped by another signal, continued and
\* waited again
C17_Witness ==
    /\ last.cmd = "Continue"
    /\ Resumed /\ last.go.ok
    /\ last.step.kind = "Stopped" /\ last.step.sig # "SIGTRAP"
    /\ Positions({"step"}, inferior.pid) # {}
    /\ Positions({"cont"}, inferior.pid) # {}
    /\ Cardinality(Positions({"waitpid"}, inferior.pid)) = 2

----------------------------------------------------------------------------
(* write_byte on its own: one call on a stopped child, for each address,    *)
(* word content and byte value, and a second call that writes the returned  *)
(* byte back                                                                *)

\* contents of the child's text words
WordPatterns == {"image", "zeros", "ones", "traps", "mixed"}
PatternMem(k) ==
    [a \in TextWords |-> [i \in 0..(W - 1) |->
        CASE k = "image" -> ProgramImage(a + i)
          [] k = "zeros" -> 0
          [] k = "ones"  -> BYTE_MASK
          [] k = "traps" -> TRAP
          [] OTHER       -> IF i % 2 = 0 THEN 85 + a ELSE 170 - i]]

\* every byte of the text words, and one address in an unmapped word
WriteByteAddrs == {a + i : a \in TextWords, i \in 0..(W - 1)} \cup {40}
WriteByteVals == {0, 1, 144, TRAP, BYTE_MASK}

\* the call's arguments, the memory before it, and what it returned
Call(cmd, addr, val, mem, ok, byte) ==
    [cmd |-> cmd, addr |-> addr, val |-> val, mem |-> mem, ok |-> ok, byte |-> byte]

InitWriteByte ==
    /\ break_points = <<>>
    /\ inferior = NoInferior
    /\ session = "prompt"
    /\ out = <<>>
    /\ ops = <<>>
    /\ \E k \in WordPatterns, addr \in WriteByteAddrs, val \in WriteByteVals,
          entry \in EntryRips :
        /\ procs = [q \in Pids |->
                     IF q = 1
                     THEN [state |-> "stopped", mem |-> PatternMem(k), rip |-> entry,
                           rbp |-> FramePointerAt(entry), hit |-> FALSE]
                     ELSE NoProc]
        /\ last = Call("input", addr, val, PatternMem(k), FALSE, 0)

\* Inferior::write_byte(pid, addr, val)
WriteByte ==
    /\ last.cmd = "input"
    /\ LET r == write_byte(procs[1], 1, last.addr, last.val)
       IN  /\ procs' = [procs EXCEPT ![1] = r.p]
           /\ ops' = r.ops
           /\ last' = [last EXCEPT !.cmd = "write_byte", !.ok = r.ok, !.byte = r.byte]
    /\ UNCHANGED <<break_points, inferior, session, out>>

\* Inferior::write_byte(pid, addr, orig_byte) with the byte the first call
\* returned (as go() does with the table's saved byte)
WriteBack ==
    /\ last.cmd = "write_byte"
    /\ last.ok
    /\ LET r == write_byte(procs[1], 1, last.addr, last.byte)
       IN  /\ procs' = [procs EXCEPT ![1] = r.p]
           /\ ops' = r.ops
           /\ last' = [last EXCEPT !.cmd = "write_back", !.ok = r.ok, !.byte = r.byte]
    /\ UNCHANGED <<break_points, inferior, session, out>>

NextWriteByte == WriteByte \/ WriteBack
SpecWriteByte == InitWriteByte /\ [][NextWriteByte]_vars

\* C18: write_byte(A, v) reads and writes only the word at A & ~(W-1),
\* returns the byte that was at A, leaves v at A and every other byte of the
\* memory as it was; writing the returned byte back restores the memory
\* exactly (in particular after patching 0xCC).
C18_WriteByteTouchesOneByte ==
    LET A == last.addr
        word == W * (A \div W)
        before == last.mem
        after == procs[1].mem
    IN  /\ last.cmd = "write_byte" =>
            /\ \A i \in 1..Len(ops) : ops[i][3] = word /\ ops[i][2] = 1
            /\ last.ok = (word \in TextWords)
            /\ last.ok =>
                /\ [i \in 1..Len(ops) |-> ops[i][1]] = <<"peek", "poke">>
                /\ last.byte = before[word][A - word]
                /\ after[word][A - word] = last.val
                /\ \A w \in TextWords : \A i \in 0..(W - 1) :
                       (w + i # A) => after[w][i] = before[w][i]
            /\ ~last.ok => after = before
        /\ last.cmd = "write_back" =>
            /\ last.ok
            /\ last.byte = last.val
            /\ after = before

\* 0xCC patched over a different byte in the middle of a word, and undone
C18_Witness ==
    /\ last.cmd = "write_back"
    /\ last.val = TRAP
    /\ last.addr % W = 3
    /\ last.mem[align_addr_to_word(last.addr)][3] # TRAP
    /\ procs[1].mem = last.mem

\* C19: go() rewinds (restore byte, rip := rip - 1, step) only when the
\* stop it resumes from was the trap raised by executing the 0xCC at rip - 1;
\* from the entry trap of a fresh child or a stop by another signal it does
\* not rewind.
C19_RewindOnlyAfterBreakpointHit ==
    [][\A pid \in Pids :
        (Resumed /\ Positions({"setregs"}, pid) # {})' =>
            /\ last'.cmd = "Continue"
            /\ procs[pid].hit]_vars

\* C20: when a patch fails during a spawn or during a `break` with an
\* inferior present (the last request is a read that no write followed),
\* the debugger does not abort: the session is at the next prompt.
C20_PatchFailureReachesPrompt ==
    (/\ last.cmd \in {"Run", "Breakpoint"}
     /\ ops # <<>>
     /\ ops[Len(ops)][1] = "peek") => AtPrompt
====
